---- MODULE Spec2Model ----
(***************************************************************************)
(* A model of profile_line (skimage/viewer/plugins/lineprofile.py), the    *)
(* function that samples an intensity profile of an image along a scan     *)
(* line, as a state machine over one call: the control position, the local *)
(* `pixels` buffer, the loop index, and the outcome (a returned array or a *)
(* raised exception).                                                      *)
(*                                                                         *)
(* Numbers.  Coordinates are floats in the code; here every coordinate is  *)
(* an integer count of HALF pixels (suffix H), which is exact for the      *)
(* integer-valued end points drawn below and for linewidth / 2.  The code  *)
(* has no `from __future__ import division`, so linewidth / 2 floors under *)
(* Python 2 and is a true division under Python 3: trueDiv picks the       *)
(* interpreter.  Slice bounds and shapes are floats, which the numpy the   *)
(* code was written for (< 1.12) converts to integers by truncation.       *)
(* Quantities of the oblique path are exact rationals <<num, den>>;        *)
(* floating-point rounding is not modelled.                                *)
(*                                                                         *)
(* Arrays are records [shape, at, base, origin]: `at` maps 0-based index   *)
(* tuples to elements, `base` says whether the array owns its data or is a *)
(* view of img (basic slicing yields views).  An element is a record:      *)
(* [val |-> v] for an image intensity, [chan, site] for a value that       *)
(* ndi.map_coordinates interpolates at a sampling site.  A mean over an    *)
(* axis is kept as the sequence of the elements it averages (its window);  *)
(* WindowMean gives the number, and an empty window is numpy's NaN.        *)
(***************************************************************************)
EXTENDS Integers, Sequences, FiniteSets, TLC

VARIABLES img, end_points, linewidth, trueDiv, pc, i, pixels, result, exc

vars == <<img, end_points, linewidth, trueDiv, pc, i, pixels, result, exc>>

-----------------------------------------------------------------------------
(* Bounds of the model *)

ImgSize == 3          \* images are ImgSize x ImgSize
MaxChan == 4          \* rank-3 images have 1, 3 or MaxChan channels
Margin == 2           \* end points lie in 0..ImgSize-1+Margin, so up to
                      \* Margin pixels beyond the last row and column
MaxWidth == 3         \* linewidth ranges over -1..MaxWidth

(* Program constants *)

LoopChannels == 3     \* `for i in range(3)`
ScenarioSize == 10    \* the 10x10 constant image of the documented scenario
ScenarioValue == 5

-----------------------------------------------------------------------------
(* Arithmetic helpers *)

Abs(n) == IF n < 0 THEN -n ELSE n
Min(a, b) == IF a <= b THEN a ELSE b
Max(a, b) == IF a >= b THEN a ELSE b

RECURSIVE GCD(_, _)
GCD(a, b) == IF b = 0 THEN a ELSE GCD(b, a % b)

\* the rational n/d in lowest terms with a positive denominator
Rat(n, d) ==
    LET g == GCD(Abs(n), Abs(d))
        s == IF d < 0 THEN -1 ELSE 1
    IN  <<(s * n) \div g, (s * d) \div g>>

\* int(h / 2.0): a float (h half pixels) converted to an index, toward zero
TruncH(h) == IF h >= 0 THEN h \div 2 ELSE -((-h) \div 2)

\* np.ceil(np.hypot(dx, dy)) for dx, dy in half pixels
CeilHypotH(dxH, dyH) ==
    CHOOSE n \in 0..(Abs(dxH) + Abs(dyH)) :
        /\ 4 * n * n >= dxH * dxH + dyH * dyH
        /\ \A m \in 0..(n - 1) : 4 * m * m < dxH * dxH + dyH * dyH

\* floor(|w| * |cos(theta)|), cos(theta) = dx / hypot(dx, dy)
FloorWCos(w, dxH, dyH) ==
    CHOOSE m \in 0..Abs(w) :
        /\ m * m * (dxH * dxH + dyH * dyH) <= w * w * dxH * dxH
        /\ \A k \in (m + 1)..Abs(w) :
               k * k * (dxH * dxH + dyH * dyH) > w * w * dxH * dxH

-----------------------------------------------------------------------------
(* numpy arrays *)

Idx2(r, c) == (0..(r - 1)) \X (0..(c - 1))
Idx3(r, c, k) == (0..(r - 1)) \X (0..(c - 1)) \X (0..(k - 1))

Unbound == [base |-> "unbound"]

\* a[lo:hi] on an axis of length n, the bounds being floats (half pixels):
\* truncated, negative ones counted from the end, then clamped
NormIndex(j, n) == IF j < 0 THEN Max(j + n, 0) ELSE Min(j, n)
SliceOf(startH, stopH, n) ==
    LET lo == NormIndex(TruncH(startH), n)
        hi == NormIndex(TruncH(stopH), n)
    IN  [lo |-> lo, len |-> Max(hi - lo, 0)]

\* img[rs, cs] of a rank-2 image: a view
Slice2(im, rs, cs) ==
    [shape |-> <<rs.len, cs.len>>,
     at |-> [p \in Idx2(rs.len, cs.len) |-> im.at[<<rs.lo + p[1], cs.lo + p[2]>>]],
     base |-> "img", origin |-> <<rs.lo, cs.lo>>]

\* whether img[rs, cs, k] raises IndexError
Slice3Raises(im, k) == Len(im.shape) < 3 \/ k >= im.shape[3]

\* img[rs, cs, k] of a rank-3 image: a rank-2 view
Slice3(im, rs, cs, k) ==
    [shape |-> <<rs.len, cs.len>>,
     at |-> [p \in Idx2(rs.len, cs.len) |-> im.at[<<rs.lo + p[1], cs.lo + p[2], k>>]],
     base |-> "img", origin |-> <<rs.lo, cs.lo>>]

\* a[..., np.newaxis] of a rank-2 array
NewAxis(a) ==
    [shape |-> <<a.shape[1], a.shape[2], 1>>,
     at |-> [p \in Idx3(a.shape[1], a.shape[2], 1) |-> a.at[<<p[1], p[2]>>]],
     base |-> a.base, origin |-> a.origin]

\* np.concatenate((a, b), axis=2) of rank-3 arrays that agree on axes 0, 1
Concatenate(a, b) ==
    LET ka == a.shape[3]
    IN  [shape |-> <<a.shape[1], a.shape[2], ka + b.shape[3]>>,
         at |-> [p \in Idx3(a.shape[1], a.shape[2], ka + b.shape[3]) |->
                    IF p[3] < ka THEN a.at[p]
                    ELSE b.at[<<p[1], p[2], p[3] - ka>>]],
         base |-> "own", origin |-> <<0, 0>>]

\* a.mean(axis=1)[:, np.newaxis] of a rank-2 array: shape (rows, 1)
Mean2Axis1(a) ==
    [shape |-> <<a.shape[1], 1>>,
     at |-> [p \in Idx2(a.shape[1], 1) |->
                [c \in 1..a.shape[2] |-> a.at[<<p[1], c - 1>>]]]]

\* a.mean(axis=1) of a rank-3 array: shape (rows, channels)
Mean3Axis1(a) ==
    [shape |-> <<a.shape[1], a.shape[3]>>,
     at |-> [p \in Idx2(a.shape[1], a.shape[3]) |->
                [c \in 1..a.shape[2] |-> a.at[<<p[1], c - 1, p[2]>>]]]]

\* a.mean(axis=0) of a rank-3 array: shape (columns, channels)
Mean3Axis0(a) ==
    [shape |-> <<a.shape[2], a.shape[3]>>,
     at |-> [p \in Idx2(a.shape[2], a.shape[3]) |->
                [r \in 1..a.shape[1] |-> a.at[<<r - 1, p[1], p[2]>>]]]]

RECURSIVE SumVals(_)
SumVals(w) == IF w = <<>> THEN 0 ELSE Head(w).val + SumVals(Tail(w))

\* the number a window of intensities averages to (NaN for an empty window)
WindowMean(w) == IF Len(w) = 0 THEN "nan" ELSE Rat(SumVals(w), Len(w))

-----------------------------------------------------------------------------
(* Inputs *)

\* a rank-2 image whose intensities are all different
GradientImage(n) ==
    [ndim |-> 2, shape |-> <<n, n>>,
     at |-> [p \in Idx2(n, n) |-> [val |-> 10 * p[1] + p[2] + 1]]]

\* a rank-2 image of one intensity
ConstantImage(n, v) ==
    [ndim |-> 2, shape |-> <<n, n>>,
     at |-> [p \in Idx2(n, n) |-> [val |-> v]]]

ColourImage(n, k) ==
    [ndim |-> 3, shape |-> <<n, n, k>>,
     at |-> [p \in Idx3(n, n, k) |-> [val |-> 100 * (p[3] + 1) + 10 * p[1] + p[2]]]]

ChannelCounts == {1, LoopChannels, MaxChan}
Images == {GradientImage(ImgSize)} \cup {ColourImage(ImgSize, k) : k \in ChannelCounts}

Coords == {2 * c : c \in 0..(ImgSize - 1 + Margin)}      \* in half pixels
Points == Coords \X Coords
Widths == -1..MaxWidth

\* the documented scenario: constant 10x10 image, (1,5)-(8,5), width 1
ScenarioImage == ConstantImage(ScenarioSize, ScenarioValue)
ScenarioPoints == << <<2, 10>>, <<16, 10>> >>

x1H == end_points[1][1]
y1H == end_points[1][2]
x2H == end_points[2][1]
y2H == end_points[2][2]
dxH == x2H - x1H
dyH == y2H - y1H

\* linewidth / 2, in half pixels
HalfWidthH == IF trueDiv THEN linewidth ELSE 2 * (linewidth \div 2)

Init ==
    /\ \/ /\ img \in Images
          /\ end_points \in Points \X Points
          /\ linewidth \in Widths
       \/ /\ img = ScenarioImage
          /\ end_points = ScenarioPoints
          /\ linewidth = 1
    /\ trueDiv \in BOOLEAN
    /\ pc = "call"
    /\ i = 0
    /\ pixels = Unbound
    /\ result = Unbound
    /\ exc = "none"

-----------------------------------------------------------------------------
(* The branch taken *)

\* a variant without the `elif y1 == y2` test
BranchWithoutHorizontal(x1, y1, x2, y2, ndim) ==
    IF x1 = x2 THEN (IF ndim = 2 THEN "vertical2" ELSE "vertical3")
    ELSE "general"

Branch(x1, y1, x2, y2, ndim) ==
    IF x1 = x2 THEN (IF ndim = 2 THEN "vertical2" ELSE "vertical3")
    ELSE IF y1 = y2 THEN (IF ndim = 2 THEN "horizontal2" ELSE "horizontal3")
    ELSE "general"

Dispatch ==
    /\ pc = "call"
    /\ pc' = Branch(x1H, y1H, x2H, y2H, img.ndim)
    /\ UNCHANGED <<img, end_points, linewidth, trueDiv, i, pixels, result, exc>>

Return(value) ==
    /\ pc' = "returned"
    /\ result' = value

Raise(e) ==
    /\ pc' = "raised"
    /\ exc' = e

-----------------------------------------------------------------------------
(* Vertical line *)

VerticalRows == SliceOf(Min(y1H, y2H), Max(y1H, y2H) + 2, img.shape[1])
VerticalCols == SliceOf(x1H - HalfWidthH, x1H + HalfWidthH + 2, img.shape[2])

VerticalGrayPixels == Slice2(img, VerticalRows, VerticalCols)

VerticalGray ==
    /\ pc = "vertical2"
    /\ pixels' = VerticalGrayPixels
    /\ Return(Mean2Axis1(pixels'))
    /\ UNCHANGED <<img, end_points, linewidth, trueDiv, i, exc>>

\* one iteration of the try/except loop over band(i) = img[rows, cols, i]
ChannelStep(rows, cols, next) ==
    IF Slice3Raises(img, i)
    THEN \* IndexError in the try, and again in the handler
         /\ Raise("IndexError")
         /\ UNCHANGED <<img, end_points, linewidth, trueDiv, i, pixels, result>>
    ELSE /\ pixels' = IF pixels.base = "unbound"
                      THEN NewAxis(Slice3(img, rows, cols, i))
                      ELSE Concatenate(pixels, NewAxis(Slice3(img, rows, cols, i)))
         /\ i' = i + 1
         /\ pc' = IF i' = LoopChannels THEN next ELSE pc
         /\ UNCHANGED <<img, end_points, linewidth, trueDiv, result, exc>>

VerticalChannel ==
    /\ pc = "vertical3"
    /\ ChannelStep(VerticalRows, VerticalCols, "vertical3_return")

VerticalReturn ==
    /\ pc = "vertical3_return"
    /\ Return(Mean3Axis1(pixels))
    /\ UNCHANGED <<img, end_points, linewidth, trueDiv, i, pixels, exc>>

-----------------------------------------------------------------------------
(* Horizontal line *)

HorizontalRows == SliceOf(y1H - HalfWidthH, y1H + HalfWidthH + 2, img.shape[1])
HorizontalCols == SliceOf(Min(x1H, x2H), Max(x1H, x2H) + 2, img.shape[2])

HorizontalGrayPixels == Slice2(img, HorizontalRows, HorizontalCols)

\* pixels.mean(axis=1)[..., np.newaxis]
HorizontalGrayMean(a) == Mean2Axis1(a)

HorizontalGray ==
    /\ pc = "horizontal2"
    /\ pixels' = HorizontalGrayPixels
    /\ Return(HorizontalGrayMean(pixels'))
    /\ UNCHANGED <<img, end_points, linewidth, trueDiv, i, exc>>

HorizontalChannel ==
    /\ pc = "horizontal3"
    /\ ChannelStep(HorizontalRows, HorizontalCols, "horizontal3_return")

HorizontalReturn ==
    /\ pc = "horizontal3_return"
    /\ Return(Mean3Axis0(pixels))
    /\ UNCHANGED <<img, end_points, linewidth, trueDiv, i, pixels, exc>>

-----------------------------------------------------------------------------
(* General (oblique) line *)

\* a = dy / dx
Slope(p) == Rat(p[2][2] - p[1][2], p[2][1] - p[1][1])

\* b = y1 - a * x1, in half pixels
Intercept(p) ==
    LET a == Slope(p)
    IN  Rat(p[1][2] * a[2] - a[1] * p[1][1], a[2])

\* np.ceil(length), the number of points of line_x
LineCount(p) == CeilHypotH(p[2][1] - p[1][1], p[2][2] - p[1][2])

\* a variant that runs from x1 to x2: np.linspace(x1, x2, np.ceil(length))
LineXFromFirst(p, n) ==
    LET cnt == LineCount(p)
    IN  IF cnt = 1 THEN Rat(p[1][1], 1)
        ELSE Rat(p[1][1] * (cnt - 1) + n * (p[2][1] - p[1][1]), cnt - 1)

\* line_x = np.linspace(min(x1, x2), max(x1, x2), np.ceil(length)), entry
\* n of it (0-based), in half pixels
LineX(p, n) ==
    LET lo == Min(p[1][1], p[2][1])
        hi == Max(p[1][1], p[2][1])
        cnt == LineCount(p)
    IN  IF cnt = 1 THEN Rat(lo, 1)
        ELSE Rat(lo * (cnt - 1) + n * (hi - lo), cnt - 1)

\* y_width = abs(linewidth * cos(theta) / 2), squared
YWidthSquared(p, w) ==
    LET dx == p[2][1] - p[1][1]
        dy == p[2][2] - p[1][2]
    IN  Rat(w * w * dx * dx, 4 * (dx * dx + dy * dy))

\* np.linspace(yi - y_width, yi + y_width, linewidth) has this many entries
PerpCount(w) == Max(w, 0)

\* entry j (0-based) of that linspace is yi + t * y_width with this t
PerpOffset(w, j) == IF w = 1 THEN <<-1, 1>> ELSE Rat(2 * j - (w - 1), w - 1)

\* the point perp_lines[:, n, j]: perp_ys[n, j] = line_y[n] + t * y_width and
\* perp_xs[n, j] = -a * perp_ys[n, j] + (line_x[n] + a * line_y[n]), with
\* line_y[n] = a * line_x[n] + b
Site(p, w, n, j) ==
    [a |-> Slope(p), b |-> Intercept(p), x |-> LineX(p, n),
     yw2 |-> YWidthSquared(p, w), t |-> PerpOffset(w, j)]

\* ndi.map_coordinates(channel, perp_lines): shape (L, w), the value that
\* the spline interpolates at each site; chan = -1 is the rank-2 img itself
MapCoordinates(chan, p, w) ==
    [shape |-> <<LineCount(p), PerpCount(w)>>,
     at |-> [q \in Idx2(LineCount(p), PerpCount(w)) |->
                [chan |-> chan, site |-> Site(p, w, q[1], q[2])]],
     base |-> "own", origin |-> <<0, 0>>]

\* ndi.map_coordinates(img, perp_lines)[..., np.newaxis]: shape (L, w, 1)
GrayPixelsOf(p, w) == NewAxis(MapCoordinates(-1, p, w))

GeneralGrayPixels == GrayPixelsOf(end_points, linewidth)

\* int(y_width * 2 + 1), the second dimension of the np.zeros buffer
BufferWidth(p, w) == 1 + FloorWCos(w, p[2][1] - p[1][1], p[2][2] - p[1][2])

\* a variant that takes the buffer as a view of img instead of allocating
ZerosAliased(r, c, k) ==
    [shape |-> <<r, c, k>>,
     at |-> [q \in Idx3(r, c, k) |-> [val |-> 0]],
     base |-> "img", origin |-> <<0, 0>>]

\* np.zeros((r, c, k)): a new array that owns its data
Zeros(r, c, k) ==
    [shape |-> <<r, c, k>>,
     at |-> [q \in Idx3(r, c, k) |-> [val |-> 0]],
     base |-> "own", origin |-> <<0, 0>>]

\* whether `a[..., k] = v` fails to broadcast v, of rank 2, to a[..., k]
StoreRaises(a, v) ==
    \/ ~(v.shape[1] = a.shape[1] \/ v.shape[1] = 1)
    \/ ~(v.shape[2] = a.shape[2] \/ v.shape[2] = 1)

\* v broadcast to the index <<r, c>>
Broadcast(v, r, c) ==
    v.at[<<IF v.shape[1] = 1 THEN 0 ELSE r, IF v.shape[2] = 1 THEN 0 ELSE c>>]

\* a after `a[..., k] = v`
StoreChannel(a, k, v) ==
    [a EXCEPT !.at = [q \in DOMAIN a.at |->
        IF q[3] = k THEN Broadcast(v, q[1], q[2]) ELSE a.at[q]]]

\* img after `a[..., k] = v`: a store into a view writes its base
ImgAfterStore(im, a, k, v) ==
    IF a.base = "img"
    THEN [im EXCEPT !.at = [q \in DOMAIN im.at |->
            LET r == q[1] - a.origin[1]
                c == q[2] - a.origin[2]
            IN  IF q[3] = k /\ <<r, c, k>> \in DOMAIN a.at
                THEN Broadcast(v, r, c) ELSE im.at[q]]]
    ELSE im

\* the buffer of the rank-3 branch once the loop has stored every channel
ColourPixelsOf(p, w) ==
    LET z == Zeros(LineCount(p), BufferWidth(p, w), LoopChannels)
    IN  StoreChannel(StoreChannel(StoreChannel(z,
            0, MapCoordinates(0, p, w)),
            1, MapCoordinates(1, p, w)),
            2, MapCoordinates(2, p, w))

\* intensities = pixels.mean(axis=1), what the general path returns
GeneralProfile(im, p, w) ==
    Mean3Axis1(IF im.ndim = 3 THEN ColourPixelsOf(p, w) ELSE GrayPixelsOf(p, w))

General ==
    /\ pc = "general"
    /\ pc' = IF img.ndim = 3 THEN "general3" ELSE "general2"
    /\ UNCHANGED <<img, end_points, linewidth, trueDiv, i, pixels, result, exc>>

GeneralGray ==
    /\ pc = "general2"
    /\ pixels' = GeneralGrayPixels
    /\ Return(Mean3Axis1(pixels'))
    /\ UNCHANGED <<img, end_points, linewidth, trueDiv, i, exc>>

GeneralAlloc ==
    /\ pc = "general3"
    /\ pixels' = Zeros(LineCount(end_points),
                       BufferWidth(end_points, linewidth), LoopChannels)
    /\ pc' = "general3_loop"
    /\ UNCHANGED <<img, end_points, linewidth, trueDiv, i, result, exc>>

GeneralChannel ==
    /\ pc = "general3_loop"
    /\ LET v == MapCoordinates(i, end_points, linewidth)
       IN  IF Slice3Raises(img, i)
           THEN /\ Raise("IndexError")
                /\ UNCHANGED <<img, end_points, linewidth, trueDiv, i, pixels, result>>
           ELSE IF StoreRaises(pixels, v)
           THEN /\ Raise("ValueError")
                /\ UNCHANGED <<img, end_points, linewidth, trueDiv, i, pixels, result>>
           ELSE /\ pixels' = StoreChannel(pixels, i, v)
                /\ img' = ImgAfterStore(img, pixels, i, v)
                /\ i' = i + 1
                /\ pc' = IF i' = LoopChannels THEN "general3_return" ELSE pc
                /\ UNCHANGED <<end_points, linewidth, trueDiv, result, exc>>

GeneralReturn ==
    /\ pc = "general3_return"
    /\ Return(Mean3Axis1(pixels))
    /\ UNCHANGED <<img, end_points, linewidth, trueDiv, i, pixels, exc>>

-----------------------------------------------------------------------------

Next ==
    \/ Dispatch
    \/ VerticalGray
    \/ VerticalChannel
    \/ VerticalReturn
    \/ HorizontalGray
    \/ HorizontalChannel
    \/ HorizontalReturn
    \/ General
    \/ GeneralGray
    \/ GeneralAlloc
    \/ GeneralChannel
    \/ GeneralReturn

Spec == Init /\ [][Next]_vars

-----------------------------------------------------------------------------
(* Properties *)

Vertical == x1H = x2H
Horizontal == y1H = y2H /\ x1H # x2H
Oblique == x1H # x2H /\ y1H # y2H
Done == pc \in {"returned", "raised"}
Channels == IF img.ndim = 3 THEN img.shape[3] ELSE 1
InImage(cH, n) == 0 <= cH /\ cH <= 2 * (n - 1)
InsideImage ==
    /\ InImage(x1H, img.shape[2]) /\ InImage(x2H, img.shape[2])
    /\ InImage(y1H, img.shape[1]) /\ InImage(y2H, img.shape[1])
\* the band of linewidth pixels around an axis-aligned line lies in the image
BandInside ==
    /\ InsideImage
    /\ Vertical => InImage(x1H - linewidth, img.shape[2])
                   /\ InImage(x1H + linewidth, img.shape[2])
    /\ Horizontal => InImage(y1H - linewidth, img.shape[1])
                     /\ InImage(y1H + linewidth, img.shape[1])
Swapped == <<end_points[2], end_points[1]>>
Reversed(a) ==
    [shape |-> a.shape,
     at |-> [q \in DOMAIN a.at |-> a.at[<<a.shape[1] - 1 - q[1], q[2]>>]]]

\* C1: a horizontal line inside the image (width >= 1) yields one profile
\* entry per column between min(x1, x2) and max(x1, x2); on the constant-5
\* scenario image the profile has 8 entries, each 5.
C1_HorizontalLength ==
    (pc = "returned" /\ Horizontal /\ InsideImage /\ linewidth >= 1) =>
        /\ result.shape[1] = (Abs(dxH) \div 2) + 1
        /\ img = ScenarioImage =>
               \A q \in DOMAIN result.at : WindowMean(result.at[q]) = <<ScenarioValue, 1>>

\* C2 (as claimed): for an oblique line, the profile of the swapped end points
\* is the profile with its entries in reversed order.
C2_SwapReverses ==
    (pc = "returned" /\ Oblique) =>
        result = Reversed(GeneralProfile(img, Swapped, linewidth))

\* C2 (amended): for an oblique line the profile runs from the end point with
\* the smaller x to the one with the larger x, so swapping the end points
\* yields the same profile, entry for entry.
C2_SwapKeepsProfile ==
    (pc = "returned" /\ Oblique) =>
        result = GeneralProfile(img, Swapped, linewidth)

C2_Witness ==
    /\ pc = "returned" /\ Oblique /\ linewidth >= 1
    /\ result.shape[1] >= 2
    /\ result # Reversed(result)

\* C3: every call on a vertical or horizontal line, or on an oblique line of
\* width 1, returns an array of shape (L, C), C the number of channels of the
\* image (1 for a rank-2 image).
C3_ChannelShape ==
    (Done /\ end_points[1] # end_points[2]
          /\ (linewidth = 1 \/ (~Oblique /\ linewidth >= 1))) =>
        /\ pc = "returned"
        /\ Len(result.shape) = 2
        /\ result.shape[2] = Channels

\* C4: a call with linewidth <= 0 (and two distinct end points) never returns
\* a profile.
C4_NonPositiveWidthFails ==
    (linewidth <= 0 /\ end_points[1] # end_points[2]) => pc # "returned"

\* C5: a call with two identical end points (and a width >= 1) never returns
\* a profile.
C5_IdenticalPointsFail ==
    (end_points[1] = end_points[2] /\ linewidth >= 1) => pc # "returned"

\* C6: for an oblique line, a grayscale or 3-channel image and a width >= 1,
\* the call returns a profile of exactly ceil(hypot(dx, dy)) entries.
C6_ObliqueLength ==
    (Done /\ Oblique /\ linewidth >= 1
          /\ (img.ndim = 2 \/ Channels = LoopChannels)) =>
        /\ pc = "returned"
        /\ result.shape[1] = CeilHypotH(dxH, dyH)

\* C7: no step of a call changes img, whether the call returns or raises.
C7_ImageUnchanged == [][img' = img]_vars

C7_Witness == pc = "returned" /\ Oblique /\ img.ndim = 3 /\ i = LoopChannels

\* C8: with width >= 1 and the sampling window inside the image, every
\* profile entry is the mean of exactly `width` samples.
C8_WindowIsWidth ==
    (pc = "returned" /\ linewidth >= 1 /\ (Oblique \/ BandInside)) =>
        \A q \in DOMAIN result.at : Len(result.at[q]) = linewidth

\* C9: a returned profile has at least one entry along the line, for any end
\* points and any width >= 1.
C9_NonEmpty == (pc = "returned" /\ linewidth >= 1) => result.shape[1] >= 1

\* C10: with x1 == x2 or y1 == y2 control never reaches the general path, so
\* the slope dy / dx is only computed with dx # 0 and dy # 0.
C10_NoFallThrough ==
    pc \in {"general", "general2", "general3", "general3_loop", "general3_return"}
        => dxH # 0 /\ dyH # 0

C10_Witness == pc = "returned" /\ Horizontal /\ img.ndim = 3

====
